---- MODULE Spec2Model ----
(***************************************************************************)
(* Word search engine: the indexing pipeline (scripts/preprocess.py) and   *)
(* the exact-match query engine (scripts/search.py).                        *)
(*                                                                         *)
(* The two scripts are separate programs.  SearchSpec is one call of       *)
(* search.search_word, PipelineSpec one run of preprocess.main.             *)
(***************************************************************************)
EXTENDS Integers, Sequences, FiniteSets, TLC

VARIABLES
    \* ---- search.py ----
    spc,            \* position inside search_word
    documents_dir,  \* the documents_dir parameter / local (a string)
    jsonFile,       \* what is on disk at json_path
    outputFile,     \* what is on disk at output_json
    outputFile0,    \* history: outputFile when search_word was called
    data,           \* result of load_json_file
    rawQuery,       \* history: the line the user typed at "Enter the word to search"
    search_word,    \* the local search_word (the typed line, stripped)
    matches,        \* the local matches
    asked,          \* history: prompts issued so far
    stdout,         \* kinds of message printed so far
    raised,         \* the exception that left search_word uncaught, or "none"
    \* ---- preprocess.py ----
    ppc,            \* position inside main / preprocess_documents
    folderExists,   \* os.path.isdir(folder_path)
    folder,         \* the names in folder_path, in filesystem enumeration order
    temp_dir,       \* "none", "present" or "removed"
    tempFiles,      \* the names of the files in temp_dir
    converted_pdfs, \* the list preprocess_docx returns
    convFailed,     \* history: the .docx names whose conversion raised
    all_files,      \* the list of paths to process
    file_idx,       \* index in all_files of the file being processed
    result,         \* the OCR result of the current file: its pages
    page_idx,       \* the page loop's page_idx
    results,        \* the list of word records
    origin,         \* history: for each record of results, where it came from
    docLog,         \* history: per finished file, how its OCR went
    lastPage,       \* history: how the annotation of the last page went
    annotated,      \* annotated images written under logs/<doc_name>/
    indexFile,      \* what is on disk at word_index.json
    summary,        \* main has printed the summary
    praised         \* the exception propagating out of preprocess_documents

searchVars == <<spc, documents_dir, jsonFile, outputFile, outputFile0, data,
                rawQuery, search_word, matches, asked, stdout, raised>>

pipeVars == <<ppc, folderExists, folder, temp_dir, tempFiles, converted_pdfs,
              convFailed, all_files, file_idx, result, page_idx, results,
              origin, docLog, lastPage, annotated, indexFile, summary, praised>>

vars == <<searchVars, pipeVars>>

----------------------------------------------------------------------------
(* Bounds *)

\* longest line typed at a prompt
MaxInputLen == 2
\* most entries in the index file's array
MaxIndexLen == 3

----------------------------------------------------------------------------
(* Strings are sequences of characters. *)

Alphabet == {" ", "a", "A"}

Strings(n) == UNION {[1..k -> Alphabet] : k \in 0..n}

IsSpace(c) == c = " "

RECURSIVE LStrip(_)
LStrip(s) ==
    IF s = <<>> THEN s
    ELSE IF IsSpace(Head(s)) THEN LStrip(Tail(s)) ELSE s

RECURSIVE RStrip(_)
RStrip(s) ==
    IF s = <<>> THEN s
    ELSE IF IsSpace(s[Len(s)]) THEN RStrip(SubSeq(s, 1, Len(s) - 1)) ELSE s

\* str.strip()
Strip(s) == RStrip(LStrip(s))

\* str.lower(), used only to state what the code does not do
LowerChar(c) == IF c = "A" THEN "a" ELSE c
Lower(s) == [i \in DOMAIN s |-> LowerChar(s[i])]

----------------------------------------------------------------------------
(* The environment of search_word *)

\* directories that exist: os.path.isdir
ExistingDirs == {<<"a">>, <<"a", " ", "a">>}

isdir(path) == path \in ExistingDirs

\* lines a user can type at a prompt
Inputs == Strings(MaxInputLen)

\* values of documents_dir search_word can be called with
InitialDirs == {<<"a">>, <<"A">>}

\* the words the index can hold
IndexWords == {<<"a">>, <<"A">>}

WordRecord(w, p) ==
    [document |-> "report.pdf", page |-> p, word |-> w,
     bounding_box |-> <<1, 1, 2, 2>>]

WordRecords == {WordRecord(w, p) : w \in IndexWords, p \in 1..2}

\* a JSON object that is no WordRecord: it has no "word" key
BadEntry == [document |-> "report.pdf", page |-> 1]

Entries == WordRecords \cup {BadEntry}

Arrays == UNION {[1..k -> Entries] : k \in 0..MaxIndexLen}

\* what can be at json_path: no file, bytes that are not text in the
\* locale's encoding, text that is not JSON, the JSON value null, a JSON
\* array of objects
JsonFiles ==
    {[kind |-> k, value |-> <<>>] : k \in {"missing", "undecodable", "notjson", "null"}}
    \cup {[kind |-> "array", value |-> a] : a \in Arrays}

NoFile == [exists |-> FALSE, content |-> <<>>]
FileWith(content) == [exists |-> TRUE, content |-> content]

\* a result file left by an earlier search
StaleOutput == FileWith(<<WordRecord(<<"A">>, 2)>>)

PyNone == [isNone |-> TRUE, value |-> <<>>]
PyValue(v) == [isNone |-> FALSE, value |-> v]

\* no page has been processed in the current file
NoPage == [file |-> 0, page |-> 0, rastered |-> FALSE, drawn |-> FALSE]

\* the pipeline is not running
PipelineIdle ==
    /\ ppc = "idle"
    /\ folderExists = FALSE
    /\ folder = <<>>
    /\ temp_dir = "none"
    /\ tempFiles = {}
    /\ converted_pdfs = <<>>
    /\ convFailed = {}
    /\ all_files = <<>>
    /\ file_idx = 0
    /\ result = <<>>
    /\ page_idx = 0
    /\ results = <<>>
    /\ origin = <<>>
    /\ docLog = <<>>
    /\ lastPage = NoPage
    /\ annotated = {}
    /\ indexFile = NoFile
    /\ summary = FALSE
    /\ praised = "none"

----------------------------------------------------------------------------
(* search.py *)

SearchInit ==
    /\ spc = "while"
    /\ documents_dir \in InitialDirs
    /\ jsonFile \in JsonFiles
    /\ outputFile \in {NoFile, StaleOutput}
    /\ outputFile0 = outputFile
    /\ data = PyNone
    /\ rawQuery = <<>>
    /\ search_word = <<>>
    /\ matches = <<>>
    /\ asked = {}
    /\ stdout = {}
    /\ raised = "none"
    /\ PipelineIdle

\* RetryDir with `if` in place of `while`: one prompt, then on to the load
RetryDirOnce ==
    /\ spc = "while"
    /\ ~isdir(documents_dir)
    /\ \E line \in Inputs :
        /\ documents_dir' = Strip(line)
        /\ asked' = asked \cup {"documents_dir"}
        /\ IF Strip(line) = <<>>
           THEN /\ stdout' = stdout \cup {"dir_missing", "no_path"}
                /\ spc' = "returned"
           ELSE /\ stdout' = stdout \cup {"dir_missing"}
                /\ spc' = "load"
    /\ UNCHANGED <<pipeVars, jsonFile, outputFile, outputFile0, data, rawQuery,
                   search_word, matches, raised>>

\* lines 19-24: one iteration of the while loop
RetryDir ==
    /\ spc = "while"
    /\ ~isdir(documents_dir)
    /\ \E line \in Inputs :
        /\ documents_dir' = Strip(line)
        /\ asked' = asked \cup {"documents_dir"}
        /\ IF Strip(line) = <<>>
           THEN /\ stdout' = stdout \cup {"dir_missing", "no_path"}
                /\ spc' = "returned"
           ELSE /\ stdout' = stdout \cup {"dir_missing"}
                /\ spc' = "while"
    /\ UNCHANGED <<pipeVars, jsonFile, outputFile, outputFile0, data, rawQuery,
                   search_word, matches, raised>>

\* line 19: the loop condition is false
DirOk ==
    /\ spc = "while"
    /\ isdir(documents_dir)
    /\ spc' = "load"
    /\ UNCHANGED <<pipeVars, documents_dir, jsonFile, outputFile, outputFile0, data,
                   rawQuery, search_word, matches, asked, stdout, raised>>

\* lines 4-14: open() raises FileNotFoundError; reading bytes that do not
\* decode raises UnicodeDecodeError, which neither except clause names;
\* json.load raises JSONDecodeError or returns the value (None for null)
load_json_file ==
    /\ spc = "load"
    /\ CASE jsonFile.kind = "missing" ->
               /\ data' = PyNone
               /\ stdout' = stdout \cup {"not_found"}
               /\ raised' = raised
               /\ spc' = "loaded"
         [] jsonFile.kind = "notjson" ->
               /\ data' = PyNone
               /\ stdout' = stdout \cup {"invalid_json"}
               /\ raised' = raised
               /\ spc' = "loaded"
         [] jsonFile.kind = "undecodable" ->
               /\ raised' = "UnicodeDecodeError"
               /\ spc' = "crashed"
               /\ UNCHANGED <<data, stdout>>
         [] jsonFile.kind = "null" ->
               /\ data' = PyNone
               /\ spc' = "loaded"
               /\ UNCHANGED <<stdout, raised>>
         [] jsonFile.kind = "array" ->
               /\ data' = PyValue(jsonFile.value)
               /\ spc' = "loaded"
               /\ UNCHANGED <<stdout, raised>>
    /\ UNCHANGED <<pipeVars, documents_dir, jsonFile, outputFile, outputFile0, rawQuery,
                   search_word, matches, asked>>

\* lines 28-29
DataIsNone ==
    /\ spc = "loaded"
    /\ data.isNone
    /\ spc' = "returned"
    /\ UNCHANGED <<pipeVars, documents_dir, jsonFile, outputFile, outputFile0, data,
                   rawQuery, search_word, matches, asked, stdout, raised>>

\* line 32
AskWord ==
    /\ spc = "loaded"
    /\ ~data.isNone
    /\ \E line \in Inputs :
        /\ rawQuery' = line
        /\ search_word' = Strip(line)
    /\ asked' = asked \cup {"search_word"}
    /\ spc' = "match"
    /\ UNCHANGED <<pipeVars, documents_dir, jsonFile, outputFile, outputFile0, data,
                   matches, stdout, raised>>

\* EntryMatches comparing case-insensitively
EntryMatchesIgnoreCase(entry, query) == Lower(entry.word) = Lower(query)

\* line 35: entry["word"] == search_word
EntryMatches(entry, query) == entry.word = query

HasWord(entry) == "word" \in DOMAIN entry

\* FilterMatches stopping at the first match
FilterMatchesFirstOnly(entries, query) ==
    LET all == SelectSeq(entries, LAMBDA entry : EntryMatches(entry, query))
    IN  IF all = <<>> THEN all ELSE <<all[1]>>

\* line 35: the list comprehension over a list of records
FilterMatches(entries, query) ==
    SelectSeq(entries, LAMBDA entry : EntryMatches(entry, query))

\* line 35: the comprehension raises KeyError at an entry without "word"
Match ==
    /\ spc = "match"
    /\ IF \E i \in DOMAIN data.value : ~HasWord(data.value[i])
       THEN /\ raised' = "KeyError"
            /\ spc' = "crashed"
            /\ UNCHANGED matches
       ELSE /\ matches' = FilterMatches(data.value, search_word)
            /\ spc' = "save"
            /\ UNCHANGED raised
    /\ UNCHANGED <<pipeVars, documents_dir, jsonFile, outputFile, outputFile0, data,
                   rawQuery, search_word, asked, stdout>>

\* lines 38-53: open(output_json, 'w') succeeds or raises; the except
\* clauses print the error
SaveResults ==
    /\ spc = "save"
    /\ \E writable \in BOOLEAN :
        IF matches # <<>>
        THEN IF writable
             THEN /\ outputFile' = FileWith(matches)
                  /\ stdout' = stdout \cup {"found", "saved"}
             ELSE /\ stdout' = stdout \cup {"save_error"}
                  /\ UNCHANGED outputFile
        ELSE IF writable
             THEN /\ outputFile' = FileWith(<<>>)
                  /\ stdout' = stdout \cup {"no_matches", "empty_saved"}
             ELSE /\ stdout' = stdout \cup {"no_matches", "save_empty_error"}
                  /\ UNCHANGED outputFile
    /\ spc' = "returned"
    /\ UNCHANGED <<pipeVars, documents_dir, jsonFile, outputFile0, data, rawQuery,
                   search_word, matches, asked, raised>>

SearchNext ==
    \/ RetryDir
    \/ DirOk
    \/ load_json_file
    \/ DataIsNone
    \/ AskWord
    \/ Match
    \/ SaveResults

SearchSpec == SearchInit /\ [][SearchNext]_vars

----------------------------------------------------------------------------
(* Claims about search.py *)

SearchFinished == spc = "returned" /\ "search_word" \in asked

WriteFailed == stdout \cap {"save_error", "save_empty_error"} # {}

\* the records of index whose word is w, in index order, duplicates kept
RECURSIVE RecordsWithWord(_, _)
RecordsWithWord(index, w) ==
    IF index = <<>> THEN <<>>
    ELSE IF Head(index).word = w
         THEN <<Head(index)>> \o RecordsWithWord(Tail(index), w)
         ELSE RecordsWithWord(Tail(index), w)

\* C1: for a loaded index of word records and any query word, once
\* search_word has returned (and the write of the output file did not raise)
\* the output file holds exactly the subsequence of the index records whose
\* word equals the query, in index order with duplicates kept; with no
\* matching record the file is still written and holds the empty array.
C1_OutputIsMatchingSubsequence ==
    (SearchFinished /\ ~WriteFailed) =>
        /\ outputFile.exists
        /\ outputFile.content = RecordsWithWord(jsonFile.value, search_word)

\* a word present in two records, with another record between them, gives a
\* result of length 2, each with its own page
C1_Witness ==
    /\ SearchFinished
    /\ Len(jsonFile.value) = 3
    /\ Len(outputFile.content) = 2
    /\ outputFile.content[1].page # outputFile.content[2].page
    /\ jsonFile.value[2].word # search_word

\* C6: search_word gets past the directory check only with an existing
\* directory in documents_dir; with a missing directory it has neither
\* loaded the index nor asked for a word, and it has returned only after an
\* empty response, leaving the output file as it was.
C6_DirectoryLoop ==
    /\ spc \in {"load", "loaded", "match", "save", "crashed"} => isdir(documents_dir)
    /\ ~isdir(documents_dir) =>
        /\ spc \in {"while", "returned"}
        /\ data = PyNone
        /\ "search_word" \notin asked
        /\ stdout \cap {"not_found", "invalid_json"} = {}
        /\ outputFile = outputFile0
        /\ spc = "returned" => documents_dir = <<>>

\* the user gave up at the retry prompt: nothing was loaded or written
C6_Witness ==
    /\ spc = "returned"
    /\ "documents_dir" \in asked
    /\ documents_dir = <<>>
    /\ outputFile0 = StaleOutput
    /\ outputFile = StaleOutput

\* content that is no array of word records
Malformed(file) ==
    \/ file.kind \in {"undecodable", "notjson", "null"}
    \/ /\ file.kind = "array"
       /\ \E i \in DOMAIN file.value : ~HasWord(file.value[i])

\* C7 (the claim as stated): with the index file missing or malformed the
\* query operation stops without crashing, tells the user, asks for no query
\* word and leaves the output file untouched.
C7_LoadFailureAbortsCleanly ==
    (jsonFile.kind = "missing" \/ Malformed(jsonFile)) =>
        /\ spc # "crashed"
        /\ "search_word" \notin asked
        /\ outputFile = outputFile0
        /\ (spc = "returned" /\ isdir(documents_dir)) =>
               stdout \cap {"not_found", "invalid_json"} # {}

Matched(entry) == \E j \in DOMAIN matches : matches[j] = entry

\* C8 (the claim as stated): a record matches iff its word is
\* character-for-character equal to the line the user entered.
C8_MatchesEnteredLineExactly ==
    spc = "save" =>
        \A i \in DOMAIN data.value :
            Matched(data.value[i]) <=> data.value[i].word = rawQuery

\* C8 (amended): a record matches iff its word is character-for-character
\* equal to the entered line with leading and trailing whitespace removed;
\* words that differ from it in case only do not match.
C8_MatchesStrippedLineExactly ==
    spc = "save" =>
        \A i \in DOMAIN data.value :
            /\ Matched(data.value[i]) <=> data.value[i].word = Strip(rawQuery)
            /\ (/\ Lower(data.value[i].word) = Lower(Strip(rawQuery))
                /\ data.value[i].word # Strip(rawQuery)) => ~Matched(data.value[i])

\* the entered line carries surrounding whitespace, one record matches it
\* and another differs from it in case only
C8_Witness ==
    /\ spc = "save"
    /\ rawQuery # Strip(rawQuery)
    /\ matches # <<>>
    /\ \E i \in DOMAIN data.value :
        /\ Lower(data.value[i].word) = Lower(search_word)
        /\ ~Matched(data.value[i])

----------------------------------------------------------------------------
(* The environment of preprocess.py *)

\* most files in folder_path
MaxFiles == 3
\* most pages the OCR reports for one PDF
MaxPages == 2

\* A file name is a sequence of tokens, a path a directory and a name.
FileNames ==
    {<<"report", ".docx">>, <<"report", ".pdf">>, <<"memo", ".docx">>,
     <<"scan", ".jpg">>}

Path(dir, name) == [dir |-> dir, name |-> name]

\* os.path.basename
basename(path) == path.name

\* str.endswith
EndsWith(name, ext) == name # <<>> /\ name[Len(name)] = ext

\* str.replace, token by token
Replace(name, old, new) ==
    [i \in DOMAIN name |-> IF name[i] = old THEN new ELSE name[i]]

\* line 128: .replace(".", "_")
DotToUnderscore(token) ==
    CASE token = ".docx" -> "_docx"
      [] token = ".pdf" -> "_pdf"
      [] token = ".jpg" -> "_jpg"
      [] token = ".jpeg" -> "_jpeg"
      [] token = ".png" -> "_png"
      [] OTHER -> token

\* the glob pattern a name falls under
PatternOf(name) == name[Len(name)]

Patterns == <<".docx", ".pdf", ".jpg", ".jpeg", ".png">>

PatternRank(name) == CHOOSE r \in DOMAIN Patterns : Patterns[r] = PatternOf(name)

\* folder listings: distinct names.  glob is called once per pattern, so the
\* program sees the enumeration order only among the names of one pattern:
\* every order of those is taken, with the patterns' groups in a fixed order.
Listings ==
    {l \in UNION {[1..k -> FileNames] : k \in 0..MaxFiles} :
        \A i, j \in DOMAIN l :
            i < j => (l[i] # l[j] /\ PatternRank(l[i]) <= PatternRank(l[j]))}

\* glob.glob(os.path.join(dir, "*" + ext)) over a listing
Glob(listing, ext) ==
    LET hits == SelectSeq(listing, LAMBDA name : EndsWith(name, ext))
    IN  [i \in DOMAIN hits |-> Path("folder", hits[i])]

\* The OCR collaborator's answer for page number p: blocks of lines of
\* words, each word with its text and the two corners of its box (in
\* hundredths of the page).
OcrWord(value, k) ==
    [value |-> value, geometry |-> <<<<10 * k, 10 * k>>, <<10 * k + 5, 10 * k + 5>>>>]

OcrPage(p) ==
    IF p % 2 = 1
    THEN [blocks |-> << [lines |-> << [words |-> <<OcrWord("Invoice", 1), OcrWord("Total", 2)>>] >>],
                        [lines |-> << [words |-> <<OcrWord("Invoice", 3)>>] >>] >>]
    ELSE [blocks |-> << [lines |-> << [words |-> <<OcrWord("invoice", 1)>>],
                                      [words |-> <<OcrWord("Invoice", 2)>>] >>] >>]

\* result.pages of a document of n pages
OcrPages(n) == [p \in 1..n |-> OcrPage(p)]

\* page counts model(doc) can report: from_images gives one page
PageCounts(path) ==
    IF EndsWith(basename(path), ".pdf") THEN 1..MaxPages ELSE {1}

\* the search is not running
SearchIdle ==
    /\ spc = "idle"
    /\ documents_dir = <<>>
    /\ jsonFile = [kind |-> "missing", value |-> <<>>]
    /\ outputFile = NoFile
    /\ outputFile0 = NoFile
    /\ data = PyNone
    /\ rawQuery = <<>>
    /\ search_word = <<>>
    /\ matches = <<>>
    /\ asked = {}
    /\ stdout = {}
    /\ raised = "none"

----------------------------------------------------------------------------
(* preprocess.py *)

PipelineInit ==
    /\ SearchIdle
    /\ ppc = "start"
    /\ folderExists \in BOOLEAN
    /\ folder \in (IF folderExists THEN Listings ELSE {<<>>})
    /\ temp_dir = "none"
    /\ tempFiles = {}
    /\ converted_pdfs = <<>>
    /\ convFailed = {}
    /\ all_files = <<>>
    /\ file_idx = 0
    /\ result = <<>>
    /\ page_idx = 0
    /\ results = <<>>
    /\ origin = <<>>
    /\ docLog = <<>>
    /\ lastPage = NoPage
    /\ annotated = {}
    /\ indexFile = NoFile
    /\ summary = FALSE
    /\ praised = "none"

\* lines 94-113: the folder check, then tempfile.mkdtemp()
Setup ==
    /\ ppc = "start"
    /\ IF ~folderExists
       THEN /\ praised' = "ValueError"
            /\ ppc' = "crashed"
            /\ UNCHANGED temp_dir
       ELSE /\ temp_dir' = "present"
            /\ ppc' = "docx"
            /\ UNCHANGED praised
    /\ UNCHANGED <<searchVars, folderExists, folder, tempFiles, converted_pdfs,
                   convFailed, all_files, file_idx, result, page_idx, results,
                   origin, docLog, lastPage, annotated, indexFile, summary>>

\* line 29: the PDF's path in output_folder
ConvertedPath(docx_file) ==
    Path("temp", Replace(basename(docx_file), ".docx", ".pdf"))

\* lines 22-42 (called at line 117): each .docx is converted or its
\* conversion raises and is logged; the paths of the converted ones are
\* returned in the order of docx_files
preprocess_docx ==
    /\ ppc = "docx"
    /\ LET docx_files == Glob(folder, ".docx")
       IN  \E ok \in SUBSET DOMAIN docx_files :
             LET good == SelectSeq(docx_files, LAMBDA f : \E i \in ok : docx_files[i] = f)
             IN  /\ converted_pdfs' = [i \in DOMAIN good |-> ConvertedPath(good[i])]
                 /\ tempFiles' = {ConvertedPath(docx_files[i]).name : i \in ok}
                 /\ convFailed' =
                        {basename(docx_files[i]) : i \in DOMAIN docx_files \ ok}
    /\ ppc' = "collect"
    /\ UNCHANGED <<searchVars, folderExists, folder, temp_dir, all_files,
                   file_idx, result, page_idx, results, origin, docLog,
                   lastPage, annotated, indexFile, summary, praised>>

\* lines 120-124
CollectFiles ==
    /\ ppc = "collect"
    /\ all_files' = Glob(folder, ".pdf") \o Glob(folder, ".jpg")
                    \o Glob(folder, ".jpeg") \o Glob(folder, ".png")
                    \o converted_pdfs
    /\ file_idx' = 1
    /\ ppc' = "file"
    /\ UNCHANGED <<searchVars, folderExists, folder, temp_dir, tempFiles,
                   converted_pdfs, convFailed, result, page_idx, results,
                   origin, docLog, lastPage, annotated, indexFile,
                   summary, praised>>

\* line 128
DocName(file_path) ==
    [i \in DOMAIN basename(file_path) |-> DotToUnderscore(basename(file_path)[i])]

\* BeginFile with the cleanup after the loop instead of in a finally clause
BeginFileNoFinally ==
    /\ ppc = "file"
    /\ file_idx <= Len(all_files)
    /\ \E made \in BOOLEAN :
         IF made
         THEN /\ ppc' = "ocr"
              /\ UNCHANGED praised
         ELSE /\ praised' = "OSError"
              /\ ppc' = "crashed"
    /\ UNCHANGED <<searchVars, folderExists, folder, temp_dir, tempFiles,
                   converted_pdfs, convFailed, all_files, file_idx, result,
                   page_idx, results, origin, docLog, lastPage,
                   annotated, indexFile, summary>>

\* lines 127-131: the next file; os.makedirs(image_dir) is outside the try
\* of line 133, so an OSError it raises leaves the loop for the finally clause
BeginFile ==
    /\ ppc = "file"
    /\ file_idx <= Len(all_files)
    /\ \E made \in BOOLEAN :
         IF made
         THEN /\ ppc' = "ocr"
              /\ UNCHANGED praised
         ELSE /\ praised' = "OSError"
              /\ ppc' = "finally"
    /\ UNCHANGED <<searchVars, folderExists, folder, temp_dir, tempFiles,
                   converted_pdfs, convFailed, all_files, file_idx, result,
                   page_idx, results, origin, docLog, lastPage,
                   annotated, indexFile, summary>>

\* line 127: all_files is exhausted
FilesDone ==
    /\ ppc = "file"
    /\ file_idx > Len(all_files)
    /\ ppc' = "finally"
    /\ UNCHANGED <<searchVars, folderExists, folder, temp_dir, tempFiles,
                   converted_pdfs, convFailed, all_files, file_idx, result,
                   page_idx, results, origin, docLog, lastPage,
                   annotated, indexFile, summary, praised>>

\* Ocr with `break` in place of `continue` at line 172
OcrFailureBreaks ==
    /\ ppc = "ocr"
    /\ \/ /\ docLog' = Append(docLog, [failed |-> TRUE, pages |-> 0])
          /\ ppc' = "finally"
          /\ UNCHANGED <<result, page_idx, file_idx>>
       \/ \E n \in PageCounts(all_files[file_idx]) :
            /\ result' = OcrPages(n)
            /\ page_idx' = 0
            /\ docLog' = Append(docLog, [failed |-> FALSE, pages |-> n])
            /\ ppc' = "page"
            /\ UNCHANGED file_idx
    /\ UNCHANGED <<searchVars, folderExists, folder, temp_dir, tempFiles,
                   converted_pdfs, convFailed, all_files, results, origin,
                   lastPage, annotated, indexFile, summary, praised>>

\* lines 133-142 and 170-172: loading the document or model(doc) raises,
\* the error is logged and the loop continues with the next file; or the
\* OCR returns the document's pages
Ocr ==
    /\ ppc = "ocr"
    /\ \/ /\ docLog' = Append(docLog, [failed |-> TRUE, pages |-> 0])
          /\ file_idx' = file_idx + 1
          /\ ppc' = "file"
          /\ UNCHANGED <<result, page_idx>>
       \/ \E n \in PageCounts(all_files[file_idx]) :
            /\ result' = OcrPages(n)
            /\ page_idx' = 0
            /\ docLog' = Append(docLog, [failed |-> FALSE, pages |-> n])
            /\ ppc' = "page"
            /\ UNCHANGED file_idx
    /\ UNCHANGED <<searchVars, folderExists, folder, temp_dir, tempFiles,
                   converted_pdfs, convFailed, all_files, results, origin,
                   lastPage, annotated, indexFile, summary, praised>>

\* lines 151-161: the record of one word
MakeRecord(file_path, page_number, word) ==
    [document |-> basename(file_path),
     page |-> page_number,
     word |-> word.value,
     bounding_box |-> <<word.geometry[1][1], word.geometry[1][2],
                        word.geometry[2][1], word.geometry[2][2]>>]

\* lines 150-161: the words of one line
LineRecords(file_path, page_number, line) ==
    [i \in DOMAIN line.words |-> MakeRecord(file_path, page_number, line.words[i])]

\* lines 149-161: the lines of one block
RECURSIVE BlockRecords(_, _, _)
BlockRecords(file_path, page_number, lines) ==
    IF lines = <<>> THEN <<>>
    ELSE LineRecords(file_path, page_number, Head(lines))
         \o BlockRecords(file_path, page_number, Tail(lines))

\* lines 147-161: page_words, block after block
RECURSIVE PageRecords(_, _, _)
PageRecords(file_path, page_number, blocks) ==
    IF blocks = <<>> THEN <<>>
    ELSE BlockRecords(file_path, page_number, Head(blocks).lines)
         \o PageRecords(file_path, page_number, Tail(blocks))

\* line 165: the file is itself the page image
IsImage(file_path) ==
    \/ EndsWith(basename(file_path), ".jpg")
    \/ EndsWith(basename(file_path), ".jpeg")
    \/ EndsWith(basename(file_path), ".png")

\* where the records of page_words came from
Origins(file, page_number, page_words) ==
    [i \in DOMAIN page_words |-> [file |-> file, page |-> page_number, pos |-> i]]

\* what the model keeps of one artifact under logs/<doc_name>/
Artifact(file_path, page_number) ==
    [doc_name |-> DocName(file_path), page |-> page_number]

\* ProcessPage with results.extend moved under `if image_path:`, after the
\* drawing
ProcessPageExtendIfAnnotated ==
    /\ ppc = "page"
    /\ page_idx < Len(result)
    /\ LET file_path == all_files[file_idx]
           page_number == page_idx + 1
           page_words == PageRecords(file_path, page_number, result[page_number].blocks)
       IN  \E rastered \in (IF IsImage(file_path) THEN {TRUE} ELSE BOOLEAN),
              drawn \in BOOLEAN :
             /\ results' = IF rastered /\ drawn THEN results \o page_words ELSE results
             /\ origin' = IF rastered /\ drawn
                          THEN origin \o Origins(file_idx, page_number, page_words)
                          ELSE origin
             /\ annotated' = IF rastered /\ drawn
                             THEN annotated \cup {Artifact(file_path, page_number)}
                             ELSE annotated
             /\ lastPage' = [file |-> file_idx, page |-> page_number,
                              rastered |-> rastered, drawn |-> rastered /\ drawn]
    /\ page_idx' = page_idx + 1
    /\ UNCHANGED <<searchVars, ppc, folderExists, folder, temp_dir, tempFiles,
                   converted_pdfs, convFailed, all_files, file_idx, result,
                   docLog, indexFile, summary, praised>>

\* ProcessPage with page_words put in front of results
ProcessPagePrepends ==
    /\ ppc = "page"
    /\ page_idx < Len(result)
    /\ LET file_path == all_files[file_idx]
           page_number == page_idx + 1
           page_words == PageRecords(file_path, page_number, result[page_number].blocks)
       IN  \E rastered \in (IF IsImage(file_path) THEN {TRUE} ELSE BOOLEAN),
              drawn \in BOOLEAN :
             /\ results' = page_words \o results
             /\ origin' = Origins(file_idx, page_number, page_words) \o origin
             /\ annotated' = IF rastered /\ drawn
                             THEN annotated \cup {Artifact(file_path, page_number)}
                             ELSE annotated
             /\ lastPage' = [file |-> file_idx, page |-> page_number,
                              rastered |-> rastered, drawn |-> rastered /\ drawn]
    /\ page_idx' = page_idx + 1
    /\ UNCHANGED <<searchVars, ppc, folderExists, folder, temp_dir, tempFiles,
                   converted_pdfs, convFailed, all_files, file_idx, result,
                   docLog, indexFile, summary, praised>>

\* lines 146-168, one page: its records are appended to results; then the
\* page image is the file itself or convert_page_to_image's raster (lines
\* 44-55, None when rasterizing raises); with an image path,
\* draw_bounding_boxes (lines 57-84) saves the annotated image or logs the
\* error it caught
ProcessPage ==
    /\ ppc = "page"
    /\ page_idx < Len(result)
    /\ LET file_path == all_files[file_idx]
           page_number == page_idx + 1
           page_words == PageRecords(file_path, page_number, result[page_number].blocks)
       IN  \E rastered \in (IF IsImage(file_path) THEN {TRUE} ELSE BOOLEAN),
              drawn \in BOOLEAN :
             /\ results' = results \o page_words
             /\ origin' = origin \o Origins(file_idx, page_number, page_words)
             /\ annotated' = IF rastered /\ drawn
                             THEN annotated \cup {Artifact(file_path, page_number)}
                             ELSE annotated
             /\ lastPage' = [file |-> file_idx, page |-> page_number,
                              rastered |-> rastered, drawn |-> rastered /\ drawn]
    /\ page_idx' = page_idx + 1
    /\ UNCHANGED <<searchVars, ppc, folderExists, folder, temp_dir, tempFiles,
                   converted_pdfs, convFailed, all_files, file_idx, result,
                   docLog, indexFile, summary, praised>>

\* line 145: the pages are exhausted, on to the next file
PagesDone ==
    /\ ppc = "page"
    /\ page_idx = Len(result)
    /\ file_idx' = file_idx + 1
    /\ ppc' = "file"
    /\ lastPage' = NoPage
    /\ UNCHANGED <<searchVars, folderExists, folder, temp_dir, tempFiles,
                   converted_pdfs, convFailed, all_files, result, page_idx,
                   results, origin, docLog, annotated,
                   indexFile, summary, praised>>

\* lines 174-175: shutil.rmtree(temp_dir); an exception on its way out
\* goes on propagating
Finally ==
    /\ ppc = "finally"
    /\ temp_dir' = "removed"
    /\ tempFiles' = {}
    /\ ppc' = IF praised = "none" THEN "save" ELSE "crashed"
    /\ UNCHANGED <<searchVars, folderExists, folder, converted_pdfs, convFailed,
                   all_files, file_idx, result, page_idx, results, origin,
                   docLog, lastPage, annotated, indexFile, summary,
                   praised>>

\* lines 177-182
SaveIndex ==
    /\ ppc = "save"
    /\ indexFile' = FileWith(results)
    /\ ppc' = "summary"
    /\ UNCHANGED <<searchVars, folderExists, folder, temp_dir, tempFiles,
                   converted_pdfs, convFailed, all_files, file_idx, result,
                   page_idx, results, origin, docLog, lastPage,
                   annotated, summary, praised>>

\* lines 184-189: main prints the summary
PrintSummary ==
    /\ ppc = "summary"
    /\ summary' = TRUE
    /\ ppc' = "done"
    /\ UNCHANGED <<searchVars, folderExists, folder, temp_dir, tempFiles,
                   converted_pdfs, convFailed, all_files, file_idx, result,
                   page_idx, results, origin, docLog, lastPage,
                   annotated, indexFile, praised>>

PipelineNext ==
    \/ Setup
    \/ preprocess_docx
    \/ CollectFiles
    \/ BeginFile
    \/ FilesDone
    \/ Ocr
    \/ ProcessPage
    \/ PagesDone
    \/ Finally
    \/ SaveIndex
    \/ PrintSummary

PipelineSpec == PipelineInit /\ [][PipelineNext]_vars

----------------------------------------------------------------------------
(* Claims about preprocess.py *)

\* the texts of page number p in reading order, as the OCR reports them
ExpectedTexts(p) ==
    IF p % 2 = 1 THEN <<"Invoice", "Total", "Invoice">> ELSE <<"invoice", "Invoice">>

\* the elements of seq tagged with file k, in order
RECURSIVE PickFile(_, _, _)
PickFile(seq, tags, k) ==
    IF seq = <<>> THEN <<>>
    ELSE (IF Head(tags).file = k THEN <<Head(seq)>> ELSE <<>>)
         \o PickFile(Tail(seq), Tail(tags), k)

\* the elements of seq tagged with page p of file k, in order
RECURSIVE PickPage(_, _, _, _)
PickPage(seq, tags, k, p) ==
    IF seq = <<>> THEN <<>>
    ELSE (IF Head(tags).file = k /\ Head(tags).page = p THEN <<Head(seq)>> ELSE <<>>)
         \o PickPage(Tail(seq), Tail(tags), k, p)

\* what file k has put into results so far
Contribution(k) == PickFile(results, origin, k)

\* what page p of file k has put into results so far
PageContribution(k, p) == PickPage(results, origin, k, p)

\* document, page and word of the records a page of a file must give
ExpectedPage(file_path, p) ==
    [i \in DOMAIN ExpectedTexts(p) |->
        [document |-> basename(file_path), page |-> p, word |-> ExpectedTexts(p)[i]]]

RECURSIVE ExpectedPages(_, _)
ExpectedPages(file_path, n) ==
    IF n = 0 THEN <<>>
    ELSE ExpectedPages(file_path, n - 1) \o ExpectedPage(file_path, n)

Essence(records) ==
    [i \in DOMAIN records |->
        [document |-> records[i].document, page |-> records[i].page,
         word |-> records[i].word]]

\* the files the loop of line 127 is through with
FinishedFiles == {k \in DOMAIN docLog : k < file_idx}

RunCompleted == ppc \in {"save", "summary", "done"}

SupportedExts == {".pdf", ".jpg", ".jpeg", ".png"}

\* C2 (the claim as stated): once the folder is validated no failure while
\* handling a document aborts the run; the run ends with the index written
\* and the summary printed.
C2_DocumentFailuresNeverAbort ==
    folderExists =>
        /\ praised = "none"
        /\ ppc # "crashed"
        /\ ppc = "done" => (summary /\ indexFile = FileWith(results))

\* C3: when preprocess_documents is left, by returning or by an exception,
\* the temporary directory is not there any more.
C3_TempDirRemoved ==
    /\ ppc \in {"save", "summary", "done", "crashed"} =>
           (temp_dir # "present" /\ tempFiles = {})
    /\ (ppc = "crashed" /\ praised = "OSError") => temp_dir = "removed"
    /\ RunCompleted => temp_dir = "removed"

\* a run in which a document failed and which an uncaught exception ended,
\* with converted PDFs in the temporary directory
C3_Witness ==
    /\ ppc = "crashed"
    /\ praised = "OSError"
    /\ converted_pdfs # <<>>
    /\ \E k \in DOMAIN docLog : docLog[k].failed
    /\ temp_dir = "removed"

\* C4: a document whose conversion failed is not processed and a document
\* whose OCR raised has no record in results; every other finished document
\* has all its records there; a completed run has been through every
\* supported file of the folder and every converted document, and has
\* written these records to the index.
C4_FailedDocumentsContributeNothing ==
    /\ \A k \in FinishedFiles :
        IF docLog[k].failed
        THEN Contribution(k) = <<>>
        ELSE Essence(Contribution(k)) = ExpectedPages(all_files[k], docLog[k].pages)
    /\ \A name \in convFailed : \A k \in DOMAIN all_files :
        all_files[k] # Path("temp", Replace(name, ".docx", ".pdf"))
    /\ RunCompleted =>
        /\ FinishedFiles = DOMAIN all_files
        /\ \A i \in DOMAIN folder :
            /\ (\E ext \in SupportedExts : EndsWith(folder[i], ext)) =>
                   \E k \in DOMAIN all_files : all_files[k] = Path("folder", folder[i])
            /\ (EndsWith(folder[i], ".docx") /\ folder[i] \notin convFailed) =>
                   \E k \in DOMAIN all_files :
                       all_files[k] = Path("temp", Replace(folder[i], ".docx", ".pdf"))
    /\ ppc = "done" => indexFile = FileWith(results)

\* one conversion failed, the OCR of the first file raised, and the file
\* after it has its records in the index
C4_Witness ==
    /\ ppc = "done"
    /\ convFailed # {}
    /\ Len(docLog) = 2
    /\ docLog[1].failed
    /\ ~docLog[2].failed
    /\ Contribution(1) = <<>>
    /\ Len(indexFile.content) >= 3

\* no other file of the run has the same doc_name, and so the same
\* annotated image paths
NoTwin(k) ==
    \A other \in DOMAIN all_files :
        DocName(all_files[other]) = DocName(all_files[k]) => other = k

\* C5: whatever happened to the rasterization and to the drawing of the
\* page just processed, its records are in results; its annotated image is
\* there if both succeeded and is skipped otherwise; and every page of a
\* finished document that the OCR read has its records in results, whatever
\* happened to the annotation of any page.
C5_AnnotationIndependentOfIndexing ==
    /\ lastPage # NoPage =>
        /\ Essence(PageContribution(lastPage.file, lastPage.page))
               = ExpectedPage(all_files[lastPage.file], lastPage.page)
        /\ lastPage.drawn =>
               Artifact(all_files[lastPage.file], lastPage.page) \in annotated
        /\ (~lastPage.drawn /\ NoTwin(lastPage.file)) =>
               Artifact(all_files[lastPage.file], lastPage.page) \notin annotated
    /\ \A k \in FinishedFiles : \A p \in 1..docLog[k].pages :
        Essence(PageContribution(k, p)) = ExpectedPage(all_files[k], p)

\* the rasterization of page 2 has just failed: the page has its records
\* and no annotated image, and page 1 of the document keeps its records and
\* its annotated image
C5_Witness ==
    /\ lastPage.page = 2
    /\ ~lastPage.rastered
    /\ NoTwin(lastPage.file)
    /\ Artifact(all_files[lastPage.file], 2) \notin annotated
    /\ Len(PageContribution(lastPage.file, 2)) = 2
    /\ Artifact(all_files[lastPage.file], 1) \in annotated
    /\ Len(PageContribution(lastPage.file, 1)) = 3

Before(o1, o2) ==
    \/ o1.file < o2.file
    \/ o1.file = o2.file /\ o1.page < o2.page
    \/ o1.file = o2.file /\ o1.page = o2.page /\ o1.pos < o2.pos

\* the place of a name in the folder's enumeration order
PlaceInFolder(name) == CHOOSE i \in DOMAIN folder : folder[i] = name

\* the .docx a path in the temporary directory was converted from
SourceOfConverted(path) ==
    CHOOSE i \in DOMAIN folder :
        EndsWith(folder[i], ".docx") /\ ConvertedPath(Path("folder", folder[i])) = path

\* C9: at every point of a run the records are in the order of the files
\* processed, then of the 1-based page numbers, then of the OCR's reading
\* order, each record carrying the name of its file and the number of its
\* page; the files of the folder come before the converted documents, which
\* are in the order they were converted in; the index written is that
\* sequence.
C9_RecordOrder ==
    /\ Len(origin) = Len(results)
    /\ \A i, j \in DOMAIN results : i < j => Before(origin[i], origin[j])
    /\ \A i \in DOMAIN results :
        /\ origin[i].file \in DOMAIN all_files
        /\ results[i].document = basename(all_files[origin[i].file])
        /\ results[i].page = origin[i].page
        /\ results[i].page >= 1
        /\ results[i].word = ExpectedTexts(origin[i].page)[origin[i].pos]
    /\ \A a, b \in DOMAIN all_files : a < b =>
        /\ ~(all_files[a].dir = "temp" /\ all_files[b].dir = "folder")
        /\ (all_files[a].dir = "temp" /\ all_files[b].dir = "temp") =>
               SourceOfConverted(all_files[a]) < SourceOfConverted(all_files[b])
        /\ (/\ all_files[a].dir = "folder"
            /\ all_files[b].dir = "folder"
            /\ all_files[a].name[2] = all_files[b].name[2]) =>
               PlaceInFolder(all_files[a].name) < PlaceInFolder(all_files[b].name)
    /\ RunCompleted =>
        \A k \in DOMAIN all_files : ~docLog[k].failed =>
            \E i \in DOMAIN results : origin[i].file = k
    /\ ppc = "done" => indexFile.content = results

\* a file of the folder with two pages, then a converted document, with a
\* document in between whose OCR raised
C9_Witness ==
    /\ ppc = "done"
    /\ Len(all_files) = 3
    /\ all_files[1].dir = "folder"
    /\ docLog[1].pages = 2
    /\ docLog[2].failed
    /\ all_files[3].dir = "temp"
    /\ ~docLog[3].failed
    /\ indexFile.content = results

\* C10 (the claim as stated): records with the same `document` value come
\* from the same source file.
C10_DocumentIdentifiesSourceFile ==
    \A i, j \in DOMAIN results :
        results[i].document = results[j].document => origin[i].file = origin[j].file

====
